---- MODULE Spec2Model ----
(***************************************************************************)
(* Model of the UEFA Champions League round-of-16 draw simulator           *)
(* (src/simulator.py) and of the request validation in src/app.py.         *)
(*                                                                         *)
(* A team is the tuple <<group, country, name>>; Python's t[0] and t[1]    *)
(* are t[1] and t[2] here.  A Python list is a sequence, a dict is a       *)
(* function whose DOMAIN is its key set.  random.choice is a               *)
(* nondeterministic choice of a position of the list.                      *)
(*                                                                         *)
(* Spec explores every random choice, with batches of at most one draw     *)
(* and MaxCallsFull batches.  SpecBatch explores MaxCalls batches of up to *)
(* MaxN draws each, in which random.choice returns the first element of    *)
(* its list, except for up to MaxDeviations picks per batch, which may     *)
(* return any element.  FairBatch is SpecBatch in which a started call     *)
(* runs on.                                                                *)
(* SpecPure applies _generate_valid_draws, _get_optimal_draw and the test  *)
(* of count_possible_draws once to given arguments.  SpecTarget is one     *)
(* draw whose random choices aim at a given complete pairing.              *)
(***************************************************************************)
EXTENDS Integers, Sequences, FiniteSets, TLC

\* ------------------------------------------------------------------------
\* Bounds of the model
\* ------------------------------------------------------------------------
MaxCallsFull == 1  \* execute_simulation calls per process in Spec
MaxCalls == 2      \* execute_simulation calls per process in SpecBatch
MaxN == 2          \* largest simulation count of SpecBatch
MaxDeviations == 1 \* picks per batch of SpecBatch that are not the first element

\* ------------------------------------------------------------------------
\* Entity registry (simulator.py 25-45) and module-level state (47-48)
\* ------------------------------------------------------------------------
\* (mutant) the winners of groups A and B listed in the other order
WinnersSwapped ==
  << <<"B", "POR", "Porto">>,
     <<"A", "ITA", "Neapel">>,
     <<"C", "GER", "Bayern">>,
     <<"D", "ENG", "Tottenham">>,
     <<"E", "ENG", "Chelsea">>,
     <<"F", "ESP", "Real">>,
     <<"G", "ENG", "ManCity">>,
     <<"H", "POR", "Lissabon">> >>

Winners ==
  << <<"A", "ITA", "Neapel">>,
     <<"B", "POR", "Porto">>,
     <<"C", "GER", "Bayern">>,
     <<"D", "ENG", "Tottenham">>,
     <<"E", "ENG", "Chelsea">>,
     <<"F", "ESP", "Real">>,
     <<"G", "ENG", "ManCity">>,
     <<"H", "POR", "Lissabon">> >>

RunnersUp ==
  << <<"A", "ENG", "Liverpool">>,
     <<"B", "BEL", "Bruegge">>,
     <<"C", "ITA", "InterM">>,
     <<"D", "GER", "Frankfurt">>,
     <<"E", "ITA", "ACMailand">>,
     <<"F", "GER", "Leipzig">>,
     <<"G", "GER", "Dortmund">>,
     <<"H", "FRA", "PSG">> >>

\* upper limit of the simulation count accepted by the request handler
MaxSimulations == 10000000

VARIABLES
  group_winners,      \* module-level list of the 8 group winners
  group_runners,      \* module-level list of the 8 runners-up
  valid_draws,        \* module-level defaultdict: runner-up -> list of winners
  draws,              \* module-level dict: (winner, runner_up) -> count
  pc,                 \* "idle" | "for" | "while": position of the active call
  n,                  \* argument of the active execute_simulation call
  i,                  \* index of the for loop of execute_simulation
  tmp_group_winners,  \* _simulate_draw: remaining winners
  tmp_group_runners,  \* _simulate_draw: remaining runners-up
  tmp_valid_draws,    \* _simulate_draw: current mapping runner-up -> winners
  result,             \* what the last finished call gave back to its caller
  returned,           \* references to tally objects handed out by finished calls
  calls,              \* number of execute_simulation calls started
  iterations,         \* iterations of the while loop done by the current draw
  deviations,         \* SpecBatch: picks of this batch that were not the first element
  committed,          \* set of the pairings committed by the current draw
  target,             \* SpecTarget: the complete pairing the random choices aim at
  test_paired         \* SpecPure: the list paired of count_possible_draws at one test

vars == << group_winners, group_runners, valid_draws, draws, pc, n, i,
           tmp_group_winners, tmp_group_runners, tmp_valid_draws,
           result, returned, calls, iterations, deviations, committed,
           target, test_paired >>

\* ------------------------------------------------------------------------
\* Python helpers
\* ------------------------------------------------------------------------
EmptyDict == << >>

\* defaultdict(list).__getitem__: a missing key reads as the empty list
Get(vd, k) == IF k \in DOMAIN vd THEN vd[k] ELSE <<>>

\* vd[k].append(x) on a defaultdict(list): a missing key starts a new list
AppendAt(vd, k, x) ==
  IF k \in DOMAIN vd THEN [vd EXCEPT ![k] = Append(@, x)]
  ELSE vd @@ (k :> <<x>>)

\* (mutant) the assignment written as d.setdefault(k, v): an existing count stays
SetItemKeep(d, k, v) ==
  IF k \in DOMAIN d THEN d ELSE d @@ (k :> v)

\* d[k] = v on a dict: an existing key is overwritten, a new one inserted
SetItem(d, k, v) ==
  IF k \in DOMAIN d THEN [d EXCEPT ![k] = v] ELSE d @@ (k :> v)

\* x in list
InList(x, list) == \E k \in 1..Len(list) : list[k] = x

\* (mutant) the removal is lost
RemoveNothing(list, x) == list

\* list.remove(x): drops the first occurrence of x
Remove(list, x) ==
  LET first == CHOOSE k \in 1..Len(list) :
                 list[k] = x /\ \A j \in 1..(k - 1) : list[j] # x
  IN SubSeq(list, 1, first - 1) \o SubSeq(list, first + 1, Len(list))

MinOf(S) == CHOOSE x \in S : \A y \in S : x <= y

\* Sequencing of a loop: the value v of one step is computed, then Rest goes
\* on from it.
Then(v, Rest(_)) == CHOOSE out \in {Rest(x) : x \in {v}} : TRUE

\* ------------------------------------------------------------------------
\* _init_draws (simulator.py 55-64)
\* ------------------------------------------------------------------------
\* (mutant) line 61 without the country test
InitCondGroupOnly(winner, runner_up) == winner[1] # runner_up[1]

\* (mutant) line 61 without the group test
InitCondCountryOnly(winner, runner_up) == winner[2] # runner_up[2]

\* line 61
InitCond(winner, runner_up) ==
  winner[1] # runner_up[1] /\ winner[2] # runner_up[2]

\* lines 60-63: the inner for loop, for one winner
RECURSIVE InitRunners(_, _, _, _)
InitRunners(st, winner, r, runners) ==
  IF r > Len(runners) THEN st
  ELSE IF InitCond(winner, runners[r])
       THEN Then([draws |-> SetItem(st.draws, <<winner, runners[r]>>, 0),
                  valid_draws |-> AppendAt(st.valid_draws, runners[r], winner)],
                 LAMBDA st2 : InitRunners(st2, winner, r + 1, runners))
       ELSE InitRunners(st, winner, r + 1, runners)

\* line 59: the outer for loop
RECURSIVE InitWinners(_, _, _, _)
InitWinners(st, w, winners, runners) ==
  IF w > Len(winners) THEN st
  ELSE Then(InitRunners(st, winners[w], 1, runners),
            LAMBDA st2 : InitWinners(st2, w + 1, winners, runners))

_init_draws(d, vd, gw, gr) ==
  InitWinners([draws |-> d, valid_draws |-> vd], 1, gw, gr)

\* ------------------------------------------------------------------------
\* _generate_valid_draws (simulator.py 67-84)
\* ------------------------------------------------------------------------
\* (mutant) line 82 without the country test
GenCondGroupOnly(winner, runner_up) == winner[1] # runner_up[1]

\* line 82
GenCond(winner, runner_up) ==
  winner[1] # runner_up[1] /\ winner[2] # runner_up[2]

\* lines 81-83: the inner for loop, for one winner
RECURSIVE GenRunners(_, _, _, _)
GenRunners(vd, winner, r, runners_up) ==
  IF r > Len(runners_up) THEN vd
  ELSE IF GenCond(winner, runners_up[r])
       THEN Then(AppendAt(vd, runners_up[r], winner),
                 LAMBDA vd2 : GenRunners(vd2, winner, r + 1, runners_up))
       ELSE GenRunners(vd, winner, r + 1, runners_up)

\* line 80: the outer for loop
RECURSIVE GenWinners(_, _, _, _)
GenWinners(vd, w, winners, runners_up) ==
  IF w > Len(winners) THEN vd
  ELSE Then(GenRunners(vd, winners[w], 1, runners_up),
            LAMBDA vd2 : GenWinners(vd2, w + 1, winners, runners_up))

_generate_valid_draws(winners, runners_up) ==
  GenWinners(EmptyDict, 1, winners, runners_up)

\* ------------------------------------------------------------------------
\* _get_optimal_draw (simulator.py 87-132)
\* ------------------------------------------------------------------------
\* A pairing an iteration may pick; dev counts the random.choice calls behind
\* it that did not return the first element of their list.
Ok(runner_up, winner, dev) ==
  [raised |-> FALSE, kind |-> "pairing", runner_up |-> runner_up,
   winner |-> winner, dev |-> dev]

Raise(exc) == [raised |-> TRUE, kind |-> "exception", exc |-> exc]

Dev(position) == IF position = 1 THEN 0 ELSE 1

\* lines 113-117: the keys of possible_winners, in insertion order
RECURSIVE PossibleKeys(_, _, _)
PossibleKeys(keys, list, k) ==
  IF k > Len(list) THEN keys
  ELSE Then(IF InList(list[k], keys) THEN keys ELSE Append(keys, list[k]),
            LAMBDA keys2 : PossibleKeys(keys2, list, k + 1))

\* lines 121-123: occurrences of team in one list, from position k on
RECURSIVE CountIn(_, _, _)
CountIn(team, list, k) ==
  IF k > Len(list) THEN 0
  ELSE (IF list[k] = team THEN 1 ELSE 0) + CountIn(team, list, k + 1)

\* lines 120-123: occurrences of team in the lists of all runners_up
RECURSIVE Occurrences(_, _, _, _)
Occurrences(team, vd, runners_up, r) ==
  IF r > Len(runners_up) THEN 0
  ELSE CountIn(team, Get(vd, runners_up[r]), 1)
       + Occurrences(team, vd, runners_up, r + 1)

\* lines 113-123: possible_winners, as its keys in order and their counts
PossibleWinners(vd, runners_up, runner_up) ==
  LET keys == PossibleKeys(<<>>, Get(vd, runner_up), 1)
  IN [keys |-> keys,
      count |-> [t \in {keys[k] : k \in 1..Len(keys)} |->
                   Occurrences(t, vd, runners_up, 1)]]

\* (mutant) lines 127-129 keeping every possible winner
AnyWinners(possible_winners) == possible_winners.keys

\* lines 127-129
LeastWinners(possible_winners) ==
  LET min_occurances ==
        MinOf({possible_winners.count[t] : t \in DOMAIN possible_winners.count})
  IN SelectSeq(possible_winners.keys,
               LAMBDA w : possible_winners.count[w] = min_occurances)

\* lines 107-108: positions of the runners-up with one possible winner
ForcedPositions(vd, runners_up) ==
  {k \in 1..Len(runners_up) : Len(Get(vd, runners_up[k])) = 1}

\* (mutant) line 114 without the random choice: the first runner-up
LeastCommonFirstRunner(vd, runners_up) ==
  IF runners_up = <<>> THEN {Raise("IndexError")}
  ELSE LET runner_up == runners_up[1]
           possible_winners == PossibleWinners(vd, runners_up, runner_up)
       IN IF possible_winners.keys = <<>> THEN {Raise("ValueError")}
          ELSE LET least_winners == LeastWinners(possible_winners)
               IN {Ok(runner_up, least_winners[q], Dev(q)) :
                     q \in 1..Len(least_winners)}

\* lines 111-132: the second scenario
LeastCommonDraw(vd, runners_up) ==
  IF runners_up = <<>> THEN {Raise("IndexError")}
  ELSE UNION {
         LET runner_up == runners_up[p]
             possible_winners == PossibleWinners(vd, runners_up, runner_up)
         IN IF possible_winners.keys = <<>> THEN {Raise("ValueError")}
            ELSE LET least_winners == LeastWinners(possible_winners)
                 IN {Ok(runner_up, least_winners[q], Dev(p) + Dev(q)) :
                       q \in 1..Len(least_winners)}
         : p \in 1..Len(runners_up)}

\* (mutant) the careful policy replaced by the plain random pick of lines
\* 164-165
PlainDraw(vd, runners_up) ==
  UNION {
    IF Get(vd, runners_up[p]) = <<>> THEN {Raise("IndexError")}
    ELSE {Ok(runners_up[p], Get(vd, runners_up[p])[q], Dev(p) + Dev(q)) :
            q \in 1..Len(Get(vd, runners_up[p]))}
    : p \in 1..Len(runners_up)}

\* (mutant) lines 107-109 returning the last runner-up with one possible
\* winner instead of the first
ForcedLastDraw(vd, runners_up) ==
  IF ForcedPositions(vd, runners_up) # {}
  THEN LET last == CHOOSE k \in ForcedPositions(vd, runners_up) :
                     \A j \in ForcedPositions(vd, runners_up) : j <= k
           r == runners_up[last]
       IN {Ok(r, Get(vd, r)[1], 0)}
  ELSE LeastCommonDraw(vd, runners_up)

_get_optimal_draw(vd, runners_up) ==
  IF ForcedPositions(vd, runners_up) # {}
  THEN LET r == runners_up[MinOf(ForcedPositions(vd, runners_up))]
       IN {Ok(r, Get(vd, r)[1], 0)}
  ELSE LeastCommonDraw(vd, runners_up)

\* ------------------------------------------------------------------------
\* _need_optimal_draw (simulator.py 135-143)
\* ------------------------------------------------------------------------
\* (mutant) line 141 with the threshold 6
NeedBelowSix(vd, runners_up) ==
  \E k \in 1..Len(runners_up) : Len(Get(vd, runners_up[k])) < 6

\* (mutant) line 141 with the threshold 2
NeedBelowTwo(vd, runners_up) ==
  \E k \in 1..Len(runners_up) : Len(Get(vd, runners_up[k])) < 2

_need_optimal_draw(vd, runners_up) ==
  \E k \in 1..Len(runners_up) : Len(Get(vd, runners_up[k])) < 3

\* ------------------------------------------------------------------------
\* _simulate_draw (simulator.py 146-177)
\* ------------------------------------------------------------------------
\* lines 164-165: a random runner-up and a random winner of its list
NormalDraw(vd, runners_up) ==
  UNION {
    LET runner_up == runners_up[p]
    IN IF Get(vd, runner_up) = <<>> THEN {Raise("IndexError")}
       ELSE {Ok(runner_up, Get(vd, runner_up)[q], Dev(p) + Dev(q)) :
               q \in 1..Len(Get(vd, runner_up))}
    : p \in 1..Len(runners_up)}

\* lines 158-165: the pairings one iteration may pick, or the exception
NextPairing(vd, runners_up) ==
  IF _need_optimal_draw(vd, runners_up) \/ Len(runners_up) < 6
  THEN _get_optimal_draw(vd, runners_up)
  ELSE NormalDraw(vd, runners_up)

\* (mutant) the loop stops one iteration early
LoopCondEarly(runners, winners) == Len(runners) > 1 /\ winners # <<>>

\* line 156: the condition of the while loop
LoopCond(runners, winners) == runners # <<>> /\ winners # <<>>

\* lines 167-176: remove the drawn teams, count the match-up, regenerate
CommitEffects(runner_up, winner) ==
  /\ tmp_group_runners' = Remove(tmp_group_runners, runner_up)
  /\ tmp_group_winners' = Remove(tmp_group_winners, winner)
  /\ IF <<winner, runner_up>> \in DOMAIN draws
     THEN /\ draws' = [draws EXCEPT ![<<winner, runner_up>>] = @ + 1]
          /\ tmp_valid_draws' = _generate_valid_draws(tmp_group_winners',
                                                      tmp_group_runners')
          /\ committed' = committed \cup {<<winner, runner_up>>}
          /\ iterations' = iterations + 1
          /\ UNCHANGED <<pc, result>>
     ELSE \* draws[(winner, runner_up)] += 1 raises KeyError
          /\ pc' = "idle"
          /\ result' = Raise("KeyError")
          /\ UNCHANGED <<draws, tmp_valid_draws, committed, iterations>>
  /\ UNCHANGED valid_draws

\* (mutant) lines 152-153 without copy.copy: the working lists are the
\* module-level lists themselves
CommitAliased(runner_up, winner) ==
  /\ CommitEffects(runner_up, winner)
  /\ group_winners' = Remove(group_winners, winner)
  /\ group_runners' = Remove(group_runners, runner_up)

\* lines 152-153, 168-169: the teams are removed from copies of the lists
Commit(runner_up, winner) ==
  /\ CommitEffects(runner_up, winner)
  /\ UNCHANGED <<group_winners, group_runners>>

\* lines 150-154: _simulate_draw is entered by the for loop of
\* execute_simulation (lines 223-224) and copies the module-level objects
SimulateDraw ==
  /\ pc = "for"
  /\ i < n
  /\ tmp_group_winners' = group_winners
  /\ tmp_group_runners' = group_runners
  /\ tmp_valid_draws' = valid_draws
  /\ iterations' = 0
  /\ committed' = {}
  /\ pc' = "while"
  /\ UNCHANGED <<group_winners, group_runners, valid_draws, draws, n, i,
                 result, returned, calls, deviations,
                 target, test_paired>>

\* What an iteration may do: everything NextPairing offers (full), or what
\* it offers within the picks left to the batch that are not a first element.
Offered(full) ==
  LET all == NextPairing(tmp_valid_draws, tmp_group_runners)
  IN IF full
     THEN {IF o.raised THEN o ELSE Ok(o.runner_up, o.winner, 0) : o \in all}
     ELSE {o \in all : o.raised \/ deviations + o.dev <= MaxDeviations}

\* lines 156-176: one iteration of the while loop, its random choices being
\* among those behind offered
StepFrom(offered) ==
  /\ pc = "while"
  /\ LoopCond(tmp_group_runners, tmp_group_winners)
  /\ \E o \in offered :
       IF o.raised
       THEN /\ pc' = "idle"
            /\ result' = o
            /\ UNCHANGED <<group_winners, group_runners, valid_draws, draws,
                           tmp_group_winners, tmp_group_runners,
                           tmp_valid_draws, iterations, deviations, committed>>
       ELSE /\ deviations' = deviations + o.dev
            /\ Commit(o.runner_up, o.winner)
  /\ UNCHANGED <<n, i, returned, calls, target, test_paired>>

SimulateStep(full) == StepFrom(Offered(full))

\* lines 156, 177: the while condition fails and _simulate_draw returns
SimulateDrawReturn ==
  /\ pc = "while"
  /\ ~LoopCond(tmp_group_runners, tmp_group_winners)
  /\ pc' = "for"
  /\ i' = i + 1
  /\ UNCHANGED <<group_winners, group_runners, valid_draws, draws, n,
                 tmp_group_winners, tmp_group_runners, tmp_valid_draws,
                 result, returned, calls, iterations, deviations, committed,
                 target, test_paired>>

\* ------------------------------------------------------------------------
\* count_possible_draws (simulator.py 184-211)
\* ------------------------------------------------------------------------
\* (mutant) lines 203-204 without the test i != n
EligibleAnyIndex(n0, i0, paired, gw, gr) ==
  ~paired[i0] /\ gw[n0 + 1][2] # gr[i0 + 1][2]

\* lines 203-204; n and i count from 0 as in the source
Eligible(n0, i0, paired, gw, gr) ==
  i0 # n0 /\ ~paired[i0] /\ gw[n0 + 1][2] # gr[i0 + 1][2]

\* lines 197-207: st = [count, paired] is the state shared by the calls of
\* recurse; RecurseLoop is the for loop of recurse(n0) from index i0 on
RECURSIVE Recurse(_, _, _, _), RecurseLoop(_, _, _, _, _)
Recurse(n0, st, gw, gr) ==
  IF n0 = 8 THEN [st EXCEPT !.count = @ + 1]
  ELSE RecurseLoop(n0, 0, st, gw, gr)

RecurseLoop(n0, i0, st, gw, gr) ==
  IF i0 = 8 THEN st
  ELSE IF Eligible(n0, i0, st.paired, gw, gr)
       THEN LET inner == Recurse(n0 + 1, [st EXCEPT !.paired[i0] = TRUE], gw, gr)
            IN \* the recursive call has returned before the loop goes on
               IF inner.paired[i0]
               THEN RecurseLoop(n0, i0 + 1, [inner EXCEPT !.paired[i0] = FALSE],
                                gw, gr)
               ELSE inner
       ELSE RecurseLoop(n0, i0 + 1, st, gw, gr)

\* lines 193-194, 210-211
CountFor(gw, gr) ==
  Recurse(0, [count |-> 0, paired |-> [k \in 0..7 |-> FALSE]], gw, gr).count

\* the count for the registry as written in the source, evaluated once
RegistryCount == CountFor(Winners, RunnersUp)

count_possible_draws ==
  /\ pc = "idle"
  /\ result' = [raised |-> FALSE, kind |-> "count",
                count |-> IF group_winners = Winners /\ group_runners = RunnersUp
                          THEN RegistryCount
                          ELSE CountFor(group_winners, group_runners)]
  /\ UNCHANGED <<group_winners, group_runners, valid_draws, draws, pc, n, i,
                 tmp_group_winners, tmp_group_runners, tmp_valid_draws,
                 returned, calls, iterations, deviations, committed,
                 target, test_paired>>

\* ------------------------------------------------------------------------
\* execute_simulation (simulator.py 214-226)
\* ------------------------------------------------------------------------
\* line 222: the call, with _init_draws run to its end
execute_simulation(arg) ==
  /\ pc = "idle"
  /\ calls' = calls + 1
  /\ LET st == _init_draws(draws, valid_draws, group_winners, group_runners)
     IN /\ draws' = st.draws
        /\ valid_draws' = st.valid_draws
  /\ n' = arg
  /\ i' = 0
  /\ pc' = "for"
  /\ deviations' = 0
  /\ result' = [raised |-> FALSE, kind |-> "none"]
  /\ UNCHANGED <<group_winners, group_runners, tmp_group_winners,
                 tmp_group_runners, tmp_valid_draws, returned, iterations,
                 committed,
                 target, test_paired>>

\* line 223 exhausted, line 226: the call returns the module-level objects
ExecuteReturn ==
  /\ pc = "for"
  /\ ~(i < n)
  /\ pc' = "idle"
  /\ result' = [raised |-> FALSE, kind |-> "simulation", n |-> n,
                draws |-> "draws", winners |-> "group_winners",
                runners_up |-> "group_runners"]
  /\ returned' = returned \cup {"draws"}
  /\ UNCHANGED <<group_winners, group_runners, valid_draws, draws, n, i,
                 tmp_group_winners, tmp_group_runners, tmp_valid_draws,
                 calls, iterations, deviations, committed,
                 target, test_paired>>

\* the object a returned reference stands for
Deref(ref) == IF ref = "draws" THEN draws
              ELSE IF ref = "group_winners" THEN group_winners
              ELSE group_runners

\* ------------------------------------------------------------------------
\* index (app.py 33-41): the request handler validates the count
\* ------------------------------------------------------------------------
Flash(msg) ==
  /\ pc = "idle"
  /\ result' = [raised |-> FALSE, kind |-> "flash", msg |-> msg]
  /\ UNCHANGED <<group_winners, group_runners, valid_draws, draws, pc, n, i,
                 tmp_group_winners, tmp_group_runners, tmp_valid_draws,
                 returned, calls, iterations, deviations, committed,
                 target, test_paired>>

index(arg) ==
  IF arg > MaxSimulations THEN Flash("max")
  ELSE IF arg < 1 THEN Flash("min")
  ELSE execute_simulation(arg)

\* ------------------------------------------------------------------------
\* Specifications
\* ------------------------------------------------------------------------
Init ==
  /\ group_winners = Winners
  /\ group_runners = RunnersUp
  /\ valid_draws = EmptyDict
  /\ draws = EmptyDict
  /\ pc = "idle"
  /\ n = 0
  /\ i = 0
  /\ tmp_group_winners = <<>>
  /\ tmp_group_runners = <<>>
  /\ tmp_valid_draws = EmptyDict
  /\ result = [raised |-> FALSE, kind |-> "none"]
  /\ returned = {}
  /\ calls = 0
  /\ iterations = 0
  /\ deviations = 0
  /\ committed = {}
  /\ target = {}
  /\ test_paired = [k \in 0..7 |-> FALSE]

\* Every random choice; a batch has at most one draw.
ApiCall ==
  /\ calls < MaxCallsFull
  /\ \E arg \in {-1, 0, 1} : execute_simulation(arg)

Request ==
  /\ calls < MaxCallsFull
  /\ \E arg \in {0, 1, MaxSimulations + 1} : index(arg)

DrawStep == SimulateStep(TRUE)

Next ==
  \/ ApiCall
  \/ Request
  \/ SimulateDraw
  \/ DrawStep
  \/ SimulateDrawReturn
  \/ ExecuteReturn
  \/ count_possible_draws

Spec == Init /\ [][Next]_vars

\* Batches of up to MaxN draws; at most MaxDeviations picks of a batch are
\* not the first element of their list.
ApiCallBatch ==
  /\ calls < MaxCalls
  /\ \E arg \in 0..MaxN : execute_simulation(arg)

RequestBatch ==
  /\ calls < MaxCalls
  /\ \E arg \in (0..MaxN) \cup {MaxSimulations + 1} : index(arg)

DrawStepBatch == SimulateStep(FALSE)

NextBatch ==
  \/ ApiCallBatch
  \/ RequestBatch
  \/ SimulateDraw
  \/ DrawStepBatch
  \/ SimulateDrawReturn
  \/ ExecuteReturn
  \/ count_possible_draws

SpecBatch == Init /\ [][NextBatch]_vars

\* The draw loop runs to its end once started, and a call returns: the core
\* is synchronous and single-threaded.  Calls from outside are not forced.
Run == SimulateDraw \/ DrawStepBatch \/ SimulateDrawReturn \/ ExecuteReturn

FairBatch == SpecBatch /\ WF_vars(Run)

\* ------------------------------------------------------------------------
\* The functions of the module, each applied once to given arguments
\* ------------------------------------------------------------------------
\* the lists that hold some of the elements of list, in its order
SubLists(list) ==
  {SelectSeq(list, LAMBDA x : x \in S) :
     S \in SUBSET {list[k] : k \in 1..Len(list)}}

\* lines 194, 205: when recurse(n0) runs its test, n0 flags of paired are set
PairedAt(n0) ==
  {[k \in 0..7 |-> k \in S] : S \in {T \in SUBSET (0..7) : Cardinality(T) = n0}}

\* line 63: valid_draws after the _init_draws of a second call
SecondCallMapping ==
  LET first == _init_draws(EmptyDict, EmptyDict, Winners, RunnersUp)
  IN _init_draws(first.draws, first.valid_draws, Winners, RunnersUp).valid_draws

\* The mappings the policy is given: the one _generate_valid_draws makes of
\* the lists and, for the whole registry, the one a second call starts with.
MappingsOf(winners, runners_up) ==
  {_generate_valid_draws(winners, runners_up)}
    \cup (IF winners = Winners /\ runners_up = RunnersUp
          THEN {SecondCallMapping} ELSE {})

\* pc names the function about to be applied to the arguments held in
\* tmp_group_winners, tmp_group_runners, tmp_valid_draws, n, i, test_paired
InitPure ==
  /\ group_winners = Winners
  /\ group_runners = RunnersUp
  /\ valid_draws = EmptyDict
  /\ draws = EmptyDict
  /\ result = [raised |-> FALSE, kind |-> "none"]
  /\ returned = {}
  /\ calls = 0
  /\ iterations = 0
  /\ deviations = 0
  /\ committed = {}
  /\ target = {}
  /\ \/ /\ pc = "generate"
        /\ tmp_group_winners \in SubLists(Winners)
        /\ tmp_group_runners \in SubLists(RunnersUp)
        /\ tmp_valid_draws = EmptyDict
        /\ n = 0
        /\ i = 0
        /\ test_paired = [k \in 0..7 |-> FALSE]
     \/ /\ pc = "policy"
        /\ tmp_group_winners \in SubLists(Winners)
        /\ tmp_group_runners \in SubLists(RunnersUp)
        /\ tmp_valid_draws \in MappingsOf(tmp_group_winners, tmp_group_runners)
        /\ n = 0
        /\ i = 0
        /\ test_paired = [k \in 0..7 |-> FALSE]
     \/ /\ pc = "test"
        /\ tmp_group_winners = <<>>
        /\ tmp_group_runners = <<>>
        /\ tmp_valid_draws = EmptyDict
        /\ n \in 0..7
        /\ i \in 0..7
        /\ test_paired \in PairedAt(n)

\* lines 67-84: _generate_valid_draws(tmp_group_winners, tmp_group_runners)
GenerateCall ==
  /\ pc = "generate"
  /\ pc' = "idle"
  /\ result' = [raised |-> FALSE, kind |-> "mapping",
                mapping |-> _generate_valid_draws(tmp_group_winners,
                                                  tmp_group_runners)]
  /\ UNCHANGED <<group_winners, group_runners, valid_draws, draws, n, i,
                 tmp_group_winners, tmp_group_runners, tmp_valid_draws,
                 returned, calls, iterations, deviations, committed,
                 target, test_paired>>

\* lines 87-132: _get_optimal_draw(tmp_valid_draws, tmp_group_runners); the
\* result holds everything the call may return or raise
PolicyCall ==
  /\ pc = "policy"
  /\ pc' = "idle"
  /\ result' = [raised |-> FALSE, kind |-> "policy",
                outcomes |-> _get_optimal_draw(tmp_valid_draws,
                                               tmp_group_runners)]
  /\ UNCHANGED <<group_winners, group_runners, valid_draws, draws, n, i,
                 tmp_group_winners, tmp_group_runners, tmp_valid_draws,
                 returned, calls, iterations, deviations, committed,
                 target, test_paired>>

\* lines 203-204: the test of recurse(n) for index i
EligibleCall ==
  /\ pc = "test"
  /\ pc' = "idle"
  /\ result' = [raised |-> FALSE, kind |-> "eligible",
                value |-> Eligible(n, i, test_paired, group_winners,
                                   group_runners)]
  /\ UNCHANGED <<group_winners, group_runners, valid_draws, draws, n, i,
                 tmp_group_winners, tmp_group_runners, tmp_valid_draws,
                 returned, calls, iterations, deviations, committed,
                 target, test_paired>>

NextPure ==
  \/ GenerateCall
  \/ PolicyCall
  \/ EligibleCall

SpecPure == InitPure /\ [][NextPure]_vars

\* ------------------------------------------------------------------------
\* Properties
\* ------------------------------------------------------------------------
\* a winner and a runner-up may be paired: both tags differ
Legal(winner, runner_up) ==
  winner[1] # runner_up[1] /\ winner[2] # runner_up[2]

SetOf(list) == {list[k] : k \in 1..Len(list)}

\* the remaining winners a runner-up may still be paired with
LegalWinners(runner_up, winners) ==
  {w \in SetOf(winners) : Legal(w, runner_up)}

\* the valid pairs of the registry
ValidPairs ==
  {p \in SetOf(Winners) \X SetOf(RunnersUp) : Legal(p[1], p[2])}

\* sum of the values of a tally
Total(d) ==
  Cardinality(UNION {{<<k, j>> : j \in 1..d[k]} : k \in DOMAIN d})

RECURSIVE PermsOf(_)
PermsOf(S) ==
  IF S = {} THEN {<<>>}
  ELSE UNION {{<<x>> \o q : q \in PermsOf(S \ {x})} : x \in S}

\* the assignments of runners-up to winners, by brute force: of all 8!
\* permutations, those whose pairs are all legal
LegalPerms ==
  {q \in PermsOf(1..8) : \A k \in 1..8 : Legal(Winners[k], RunnersUp[q[k]])}

BruteForceCount == Cardinality(LegalPerms)

\* C1: while runners-up remain in a draw, every remaining runner-up has at
\* least one legal winner among the remaining winners.
C1_NoDeadEnd ==
  (pc = "while" /\ tmp_group_runners # <<>>) =>
    \A k \in 1..Len(tmp_group_runners) :
      LegalWinners(tmp_group_runners[k], tmp_group_winners) # {}

\* a draw two pairings from its end in which a runner-up has one legal
\* winner left and another has two
C1_Witness ==
  /\ pc = "while"
  /\ Len(tmp_group_runners) = 2
  /\ \E k \in 1..2 :
       Cardinality(LegalWinners(tmp_group_runners[k], tmp_group_winners)) = 1
  /\ \E k \in 1..2 :
       Cardinality(LegalWinners(tmp_group_runners[k], tmp_group_winners)) = 2

\* C2: when a draw has ended, it ended without an exception, it committed
\* exactly 8 pairings, and they use each winner once and each runner-up once.
C2_DrawComplete ==
  /\ ~result.raised
  /\ (pc = "for" /\ i > 0) =>
       /\ iterations = 8
       /\ Cardinality(committed) = 8
       /\ {q[1] : q \in committed} = SetOf(Winners)
       /\ {q[2] : q \in committed} = SetOf(RunnersUp)

C2_Witness == pc = "for" /\ i = 1 /\ Cardinality(committed) = 8

\* C3: in every state, a pair with a non-zero tally differs in group and in
\* country.
C3_TallySound ==
  \A q \in DOMAIN draws :
    draws[q] # 0 => q[1][1] # q[2][1] /\ q[1][2] # q[2][2]

C3_Witness ==
  /\ pc = "idle"
  /\ Cardinality({q \in DOMAIN draws : draws[q] # 0}) = 8

\* C4: when execute_simulation(n) with n >= 1 has returned, the tally sums
\* to 8n, also when earlier calls were made in the process.
C4_TallySum ==
  (pc = "idle" /\ result.kind = "simulation" /\ result.n >= 1) =>
    Total(draws) = 8 * result.n

C4_Witness ==
  /\ pc = "idle" /\ calls = 2
  /\ result.kind = "simulation" /\ result.n = 2
  /\ \E q \in DOMAIN draws : draws[q] = 2

\* C5: every call of count_possible_draws returns the brute-force count of
\* the assignments that are legal in group and country.
C5_CountExact ==
  result.kind = "count" => result.count = BruteForceCount

C5_Witness ==
  /\ result.kind = "count" /\ calls = 2
  /\ \E q \in DOMAIN draws : draws[q] # 0

\* C6 (as claimed): execute_simulation(n) with n <= 0 does not return
\* normally.
C6_RejectsNonPositive ==
  (pc = "idle" /\ result.kind = "simulation") => result.n >= 1

\* C7 (as claimed): no step changes a tally that an earlier call returned.
C7_ReturnedTallyUnchanged ==
  [][\A ref \in returned : Deref(ref)' = Deref(ref)]_vars

\* C8: at the start of the draws of a call the tally is all-zero, and from
\* the first call on its keys are exactly the valid pairs of the registry.
C8_TallyKeys ==
  /\ (pc = "for" /\ i = 0) => \A q \in DOMAIN draws : draws[q] = 0
  /\ calls >= 1 => DOMAIN draws = ValidPairs

C8_Witness ==
  /\ pc = "for" /\ i = 0 /\ n = 1 /\ calls = 2
  /\ returned # {}

\* C9: a draw reaches the loop head with both working lists empty, after
\* exactly 8 iterations; at every loop head the two lists have equal length.
C9_DrawTerminates ==
  /\ [](pc = "while" =>
          /\ Len(tmp_group_winners) = Len(tmp_group_runners)
          /\ iterations + Len(tmp_group_runners) = 8)
  /\ (pc = "while") ~>
       (/\ pc = "while" /\ iterations = 8
        /\ tmp_group_winners = <<>> /\ tmp_group_runners = <<>>)

C9_Witness ==
  /\ pc = "while" /\ iterations = 8 /\ calls = 1
  /\ tmp_group_winners = <<>> /\ tmp_group_runners = <<>>

\* C10: the registry keeps its 8 winners and 8 runners-up, in order.
C10_RegistryFixed ==
  group_winners = Winners /\ group_runners = RunnersUp

C10_Witness ==
  /\ calls = 2 /\ pc = "while" /\ iterations = 8
  /\ tmp_group_winners = <<>> /\ tmp_group_runners = <<>>
  /\ Len(group_winners) = 8

\* the legal winners of a runner-up among winners, in the order of winners
FreshList(runner_up, winners) ==
  SelectSeq(winners, LAMBDA w : Legal(w, runner_up))

\* C11 (as claimed): at every iteration of every draw, the mapping consulted
\* holds for each remaining runner-up exactly its legal remaining winners,
\* each once, in the order of the remaining winners.
C11_MappingFresh ==
  (pc = "while" /\ LoopCond(tmp_group_runners, tmp_group_winners)) =>
    \A k \in 1..Len(tmp_group_runners) :
      Get(tmp_valid_draws, tmp_group_runners[k])
        = FreshList(tmp_group_runners[k], tmp_group_winners)

C13_ForcedMove ==
  result.kind = "policy" =>
    \A k \in 1..Len(tmp_group_runners) :
      (/\ Len(Get(tmp_valid_draws, tmp_group_runners[k])) = 1
       /\ \A j \in 1..(k - 1) :
            Len(Get(tmp_valid_draws, tmp_group_runners[j])) # 1) =>
        result.outcomes
          = {Ok(tmp_group_runners[k],
                Get(tmp_valid_draws, tmp_group_runners[k])[1], 0)}

\* the first runner-up with one winner is not the first of the list, another
\* one follows it, and a runner-up before it has several winners
C13_Witness ==
  /\ result.kind = "policy"
  /\ \E j, k, l \in 1..Len(tmp_group_runners) :
       /\ j < k /\ k < l
       /\ Len(Get(tmp_valid_draws, tmp_group_runners[j])) > 1
       /\ Len(Get(tmp_valid_draws, tmp_group_runners[k])) = 1
       /\ Len(Get(tmp_valid_draws, tmp_group_runners[l])) = 1
       /\ \A m \in 1..(k - 1) :
            Len(Get(tmp_valid_draws, tmp_group_runners[m])) # 1
       /\ Cardinality(result.outcomes) = 1

\* the winners the mapping lists for a runner-up
Candidates(vd, runner_up) == SetOf(Get(vd, runner_up))

\* how many of the other runners-up the mapping lists winner for
OtherListings(vd, runners_up, runner_up, winner) ==
  Cardinality({r \in SetOf(runners_up) \ {runner_up} :
                 winner \in Candidates(vd, r)})

\* the pairings of a runner-up with a candidate that no other candidate of
\* it undercuts in the number of other runners-up listing it
LeastCommonPairs(vd, runners_up) ==
  {q \in SetOf(runners_up) \X UNION {Candidates(vd, r) : r \in SetOf(runners_up)} :
     /\ q[2] \in Candidates(vd, q[1])
     /\ \A w \in Candidates(vd, q[1]) :
          OtherListings(vd, runners_up, q[1], q[2])
            <= OtherListings(vd, runners_up, q[1], w)}

\* C14: when no runner-up given to _get_optimal_draw has exactly one winner
\* in the mapping, the pairings the call may return are exactly those of any
\* runner-up with any of its candidates that the fewest other runners-up
\* list; the choice of a runner-up without candidates raises an exception.
C14_LeastCommon ==
  (/\ result.kind = "policy"
   /\ \A k \in 1..Len(tmp_group_runners) :
        Len(Get(tmp_valid_draws, tmp_group_runners[k])) # 1) =>
    /\ {<<o.runner_up, o.winner>> : o \in {x \in result.outcomes : ~x.raised}}
         = LeastCommonPairs(tmp_valid_draws, tmp_group_runners)
    /\ (\E o \in result.outcomes : o.raised)
         <=> (\/ tmp_group_runners = <<>>
              \/ \E r \in SetOf(tmp_group_runners) :
                   Candidates(tmp_valid_draws, r) = {})

\* three or more runners-up, none forced; one of them has a candidate that
\* is not a possible result and two candidates that are
C14_Witness ==
  /\ result.kind = "policy"
  /\ Len(tmp_group_runners) >= 3
  /\ \A r \in SetOf(tmp_group_runners) :
       Cardinality(Candidates(tmp_valid_draws, r)) >= 2
  /\ \E r \in SetOf(tmp_group_runners) :
       LET least == {o.winner : o \in {x \in result.outcomes :
                                          ~x.raised /\ x.runner_up = r}}
       IN /\ Cardinality(least) >= 2
          /\ Candidates(tmp_valid_draws, r) \ least # {}
  /\ {o.runner_up : o \in result.outcomes} = SetOf(tmp_group_runners)

\* the pairings among which an iteration of the current draw picks
OfferedPairs ==
  {<<o.runner_up, o.winner>> : o \in {x \in Offered(TRUE) : ~x.raised}}

\* every remaining runner-up with every legal remaining winner
LegalPairs ==
  {q \in SetOf(tmp_group_runners) \X SetOf(tmp_group_winners) :
     Legal(q[2], q[1])}

\* some remaining runner-up has fewer than 3 legal remaining winners, or
\* fewer than 6 runners-up remain
Careful ==
  \/ \E r \in SetOf(tmp_group_runners) :
       Cardinality(LegalWinners(r, tmp_group_winners)) < 3
  \/ Len(tmp_group_runners) < 6

\* C15: an iteration picks among the pairings of _get_optimal_draw exactly
\* when some remaining runner-up has fewer than 3 legal winners or fewer
\* than 6 runners-up remain; any other iteration picks among all pairings of
\* a remaining runner-up with a legal remaining winner.
C15_PolicyChoice ==
  (pc = "while" /\ LoopCond(tmp_group_runners, tmp_group_winners)) =>
    /\ \A o \in Offered(TRUE) : ~o.raised
    /\ IF Careful
       THEN OfferedPairs
              = {<<o.runner_up, o.winner>> :
                   o \in _get_optimal_draw(tmp_valid_draws, tmp_group_runners)}
       ELSE OfferedPairs = LegalPairs

\* six runners-up remain, one of them has fewer than 3 legal winners, and a
\* legal pairing is not offered
C15_Witness ==
  /\ pc = "while"
  /\ Len(tmp_group_runners) = 6
  /\ Careful
  /\ LegalPairs \ OfferedPairs # {}

\* C16: for all sub-lists of the registry's winners and runners-up,
\* _generate_valid_draws gives a mapping in which every runner-up given has
\* the list of the winners given that differ from it in group and country, in
\* their order and each once; a runner-up without such a winner reads as the
\* empty list.
C16_ValidPairings ==
  result.kind = "mapping" =>
    /\ DOMAIN result.mapping \subseteq SetOf(tmp_group_runners)
    /\ \A r \in SetOf(tmp_group_runners) :
         Get(result.mapping, r) = FreshList(r, tmp_group_winners)

\* one runner-up given has no legal winner and is not a key of the dict; the
\* others have lists that leave out a winner given
C16_Witness ==
  /\ result.kind = "mapping"
  /\ Len(tmp_group_runners) >= 3
  /\ \E r \in SetOf(tmp_group_runners) :
       /\ r \notin DOMAIN result.mapping
       /\ LegalWinners(r, tmp_group_winners) = {}
       /\ \A r2 \in SetOf(tmp_group_runners) \ {r} :
            /\ Len(Get(result.mapping, r2)) >= 2
            /\ Len(Get(result.mapping, r2)) < Len(tmp_group_winners)

\* C17 (as claimed): the test of recurse(n) holds for index i exactly when i
\* is not used and the countries of winner n and runner-up i differ.
C17_CountryOnly ==
  result.kind = "eligible" =>
    result.value = (/\ ~test_paired[i]
                    /\ group_winners[n + 1][2] # group_runners[i + 1][2])

\* C17 (amended): the test of recurse(n) holds for index i exactly when i
\* differs from n, i is not used and the countries of winner n and
\* runner-up i differ.
C17_IndexAndCountry ==
  result.kind = "eligible" =>
    result.value = (/\ i # n
                    /\ ~test_paired[i]
                    /\ group_winners[n + 1][2] # group_runners[i + 1][2])

\* an unused index equal to the depth, with different countries, is refused
C17_Witness ==
  /\ result.kind = "eligible"
  /\ i = n
  /\ ~test_paired[i]
  /\ group_winners[n + 1][2] # group_runners[i + 1][2]
  /\ ~result.value

\* C18: in the registry winner a and runner-up b are of the same group
\* exactly when a = b; so the test of recurse(n) holds for index i exactly
\* when i is not used and winner n and runner-up i differ in group and in
\* country.
C18_IndexIsGroup ==
  /\ \A a, b \in 0..7 :
       (group_winners[a + 1][1] = group_runners[b + 1][1]) <=> (a = b)
  /\ result.kind = "eligible" =>
       result.value = (/\ ~test_paired[i]
                       /\ Legal(group_winners[n + 1], group_runners[i + 1]))

\* at depth 2 an unused index of another group is refused for its country
C18_Witness ==
  /\ result.kind = "eligible"
  /\ n = 2
  /\ i # n
  /\ ~test_paired[i]
  /\ group_winners[n + 1][1] # group_runners[i + 1][1]
  /\ ~result.value

\* ------------------------------------------------------------------------
\* One draw whose random choices aim at a given complete pairing
\* ------------------------------------------------------------------------
\* the complete pairings of the registry that are legal in group and country
ValidMatchings ==
  {{<<Winners[k], RunnersUp[q[k]]>> : k \in 1..8} : q \in LegalPerms}

PositionOf(runner_up) ==
  CHOOSE k \in 1..Len(tmp_group_runners) : tmp_group_runners[k] = runner_up

\* what an iteration may pick that is a pairing of target; of these, the
\* ones of the first remaining runner-up that has any
OfferedTarget ==
  LET all == Offered(TRUE)
      towards == {o \in all : ~o.raised /\ <<o.winner, o.runner_up>> \in target}
  IN {o \in all : o.raised}
       \cup {o \in towards :
               \A o2 \in towards :
                 PositionOf(o.runner_up) <= PositionOf(o2.runner_up)}

InitTarget ==
  /\ group_winners = Winners
  /\ group_runners = RunnersUp
  /\ valid_draws = EmptyDict
  /\ draws = EmptyDict
  /\ pc = "idle"
  /\ n = 0
  /\ i = 0
  /\ tmp_group_winners = <<>>
  /\ tmp_group_runners = <<>>
  /\ tmp_valid_draws = EmptyDict
  /\ result = [raised |-> FALSE, kind |-> "none"]
  /\ returned = {}
  /\ calls = 0
  /\ iterations = 0
  /\ deviations = 0
  /\ committed = {}
  /\ target \in ValidMatchings
  /\ test_paired = [k \in 0..7 |-> FALSE]

ApiCallTarget ==
  /\ calls = 0
  /\ execute_simulation(1)

DrawStepTarget == StepFrom(OfferedTarget)

NextTarget ==
  \/ ApiCallTarget
  \/ SimulateDraw
  \/ DrawStepTarget
  \/ SimulateDrawReturn
  \/ ExecuteReturn

SpecTarget == InitTarget /\ [][NextTarget]_vars

\* C19: the pairings counted by count_possible_draws are the valid complete
\* pairings of the registry, and for each of them a draw has random choices
\* that commit exactly its 8 pairs: while the draw aims at it, every
\* iteration can pick one more of its pairs, and the draw ends having
\* committed it.
C19_EveryPairingPossible ==
  /\ Cardinality(ValidMatchings) = RegistryCount
  /\ ~result.raised
  /\ pc = "while" => committed \subseteq target
  /\ (pc = "while" /\ LoopCond(tmp_group_runners, tmp_group_winners)) =>
       \E o \in Offered(TRUE) :
         /\ ~o.raised
         /\ <<o.winner, o.runner_up>> \in target \ committed
  /\ (pc = "for" /\ i = 1) => committed = target

\* a draw has ended with the pairing it aimed at, one that pairs the winner
\* of group A with the runner-up of group H and the winner of group H with
\* the runner-up of group A
C19_Witness ==
  /\ pc = "idle"
  /\ result.kind = "simulation"
  /\ committed = target
  /\ Cardinality(committed) = 8
  /\ <<Winners[1], RunnersUp[8]>> \in committed
  /\ <<Winners[8], RunnersUp[1]>> \in committed

\* what an iteration would pick among if its mapping were made afresh of the
\* remaining teams, as it is in every iteration of the first call
FreshOutcomes ==
  NextPairing(_generate_valid_draws(tmp_group_winners, tmp_group_runners),
              tmp_group_runners)

\* C20: in every call, an iteration of a draw picks among the same pairings,
\* and raises in the same cases, as with a mapping made afresh of the
\* remaining teams: the draws of a later call have the executions of the
\* draws of the first call.
C20_SameChoices ==
  (pc = "while" /\ LoopCond(tmp_group_runners, tmp_group_winners)) =>
    /\ OfferedPairs
         = {<<o.runner_up, o.winner>> : o \in {x \in FreshOutcomes : ~x.raised}}
    /\ {o \in Offered(TRUE) : o.raised} = {o \in FreshOutcomes : o.raised}

\* the first iteration of a draw of a second call, whose mapping is not the
\* fresh one
C20_Witness ==
  /\ calls = 2
  /\ pc = "while"
  /\ iterations = 0
  /\ LoopCond(tmp_group_runners, tmp_group_winners)
  /\ tmp_valid_draws
       # _generate_valid_draws(tmp_group_winners, tmp_group_runners)

====
